---- MODULE Spec2Model ----
(***************************************************************************)
(* Model of backend/src/main.rs of author-comparer: the /compare handler   *)
(* (compare_texts) and the pure pipeline it runs, extract_features ->      *)
(* compare_features (calculate_frequency_similarity) ->                    *)
(* calculate_confidence (clamp).                                           *)
(*                                                                         *)
(* f64 values are modelled as exact rationals plus the IEEE-754 special    *)
(* values NaN, +inf and -inf, with the IEEE rules for the operations the   *)
(* code uses (x/0, 0/0, inf-inf, comparisons with NaN) and Rust's          *)
(* f64::min / f64::max (which return the other operand when one is NaN).   *)
(* The square root of nalgebra's norm() is exact on perfect squares and    *)
(* rounded down to a multiple of 1/Prec otherwise, so a norm carries a     *)
(* rounding error as it does in f64 (only a coarser one).                  *)
(***************************************************************************)
EXTENDS Integers, Sequences, FiniteSets, TLC

\* ------------------------------------------------------------- bounds
\* Longest token sequence a text tokenizes to.
MaxLen == 2
\* Grid of the rounded square root: results are multiples of 1/Prec.
Prec == 100

\* ------------------------------------------------------------- f64
RECURSIVE Gcd(_, _)
Gcd(a, b) == IF b = 0 THEN a ELSE Gcd(b, a % b)

IAbs(i) == IF i < 0 THEN -i ELSE i

\* A finite f64: the rational n/d in lowest terms, d > 0.
Rat(n, d) ==
    LET g == Gcd(IAbs(n), IAbs(d))
        s == IF d < 0 THEN -1 ELSE 1
    IN  [k |-> "fin", n |-> s * (n \div g), d |-> s * (d \div g)]

NaN == [k |-> "nan", n |-> 0, d |-> 1]
PosInf == [k |-> "inf", n |-> 1, d |-> 1]
NegInf == [k |-> "inf", n |-> -1, d |-> 1]

\* `x as f64` of a count.
F(i) == Rat(i, 1)

IsNaN(x) == x.k = "nan"
IsInf(x) == x.k = "inf"
IsFinite(x) == x.k = "fin"

Sgn(x) == IF x.n > 0 THEN 1 ELSE IF x.n < 0 THEN -1 ELSE 0

FNeg(x) == IF IsNaN(x) THEN NaN ELSE [x EXCEPT !.n = -x.n]

FAdd(x, y) ==
    IF IsNaN(x) \/ IsNaN(y) THEN NaN
    ELSE IF IsInf(x) /\ IsInf(y) THEN (IF x.n = y.n THEN x ELSE NaN)
    ELSE IF IsInf(x) THEN x
    ELSE IF IsInf(y) THEN y
    ELSE LET g == Gcd(x.d, y.d)
             l == (x.d \div g) * y.d
         IN  Rat(x.n * (l \div x.d) + y.n * (l \div y.d), l)

FSub(x, y) == FAdd(x, FNeg(y))

FMul(x, y) ==
    IF IsNaN(x) \/ IsNaN(y) THEN NaN
    ELSE IF IsInf(x) \/ IsInf(y)
         THEN (IF Sgn(x) * Sgn(y) = 0 THEN NaN
               ELSE IF Sgn(x) * Sgn(y) > 0 THEN PosInf ELSE NegInf)
    ELSE LET g1 == Gcd(IAbs(x.n), y.d)
             g2 == Gcd(IAbs(y.n), x.d)
         IN  Rat((x.n \div g1) * (y.n \div g2), (x.d \div g2) * (y.d \div g1))

\* IEEE division; every zero the code divides by is +0.0 (a count, a
\* difference x - x, or the norm of a zero vector).
FDiv(x, y) ==
    IF IsNaN(x) \/ IsNaN(y) THEN NaN
    ELSE IF IsInf(x) /\ IsInf(y) THEN NaN
    ELSE IF IsInf(x) THEN (IF Sgn(y) < 0 THEN FNeg(x) ELSE x)
    ELSE IF IsInf(y) THEN F(0)
    ELSE IF y.n = 0
         THEN (IF x.n = 0 THEN NaN ELSE IF x.n > 0 THEN PosInf ELSE NegInf)
    ELSE FMul(x, Rat(y.d, y.n))

\* x < y, false when either is NaN.
FLt(x, y) ==
    IF IsNaN(x) \/ IsNaN(y) THEN FALSE
    ELSE IF IsInf(x) THEN x.n < 0 /\ ~(IsInf(y) /\ y.n < 0)
    ELSE IF IsInf(y) THEN y.n > 0
    ELSE x.n * y.d < y.n * x.d

FGt(x, y) == FLt(y, x)

\* x == y of f64: NaN is equal to nothing, itself included.
FEq(x, y) == ~IsNaN(x) /\ ~IsNaN(y) /\ x = y

FLe(x, y) == FLt(x, y) \/ FEq(x, y)

\* f64::min, f64::max: a NaN operand is ignored.
FMin(x, y) == IF IsNaN(x) THEN y ELSE IF IsNaN(y) THEN x ELSE IF FLt(y, x) THEN y ELSE x
FMax(x, y) == IF IsNaN(x) THEN y ELSE IF IsNaN(y) THEN x ELSE IF FLt(x, y) THEN y ELSE x

FAbs(x) == IF IsNaN(x) THEN NaN ELSE [x EXCEPT !.n = IAbs(x.n)]

RECURSIVE ISqrtIn(_, _, _)
ISqrtIn(m, lo, hi) ==
    IF lo >= hi THEN lo
    ELSE LET mid == (lo + hi + 1) \div 2
         IN  IF mid * mid <= m THEN ISqrtIn(m, mid, hi) ELSE ISqrtIn(m, lo, mid - 1)

\* Largest r with r * r <= m.
ISqrt(m) == ISqrtIn(m, 0, IF m < 46340 THEN m ELSE 46340)

IsSquare(m) == ISqrt(m) * ISqrt(m) = m

\* f64::sqrt of a value >= 0 (the only ones norm() passes).
FSqrt(x) ==
    IF ~IsFinite(x) THEN x
    ELSE IF IsSquare(x.n) /\ IsSquare(x.d) THEN Rat(ISqrt(x.n), ISqrt(x.d))
    ELSE Rat(ISqrt((x.n * Prec * Prec) \div x.d), Prec)

RECURSIVE FSum(_)
\* Iterator::sum over a sequence of f64, left to right from 0.0.
FSum(s) == IF s = <<>> THEN F(0) ELSE FAdd(FSum(SubSeq(s, 1, Len(s) - 1)), s[Len(s)])

\* ------------------------------------------------------------- tokens
\* The token source is a black box: a text is modelled by what the tokenizer
\* makes of it, either an error or a sequence of tokens, each with its surface
\* (token.text) and its details (details[0] is the part of speech).
\* Surfaces, in the order String's Ord sorts them.
Vocabulary == <<",", ".", "akai", "hashiru", "neko", "wa">>

\* Surfaces all of whose characters are ASCII punctuation.
AsciiPunctuation == {",", "."}

\* The characters text.split(['.', '!', '?']) splits on.
SentenceEnd == {"."}

\* "joshi" is the tag 助詞 (particle), "doshi" 動詞 (verb), "keiyoshi" 形容詞
\* (adjective), "meishi" 名詞 (noun).  The "." token has no details; the ","
\* token carries a tracked tag, which the tokenizer's contract does not exclude.
Alphabet ==
    { [text |-> "neko", details |-> <<"meishi", "ippan">>],
      [text |-> "wa", details |-> <<"joshi">>],
      [text |-> "hashiru", details |-> <<"doshi">>],
      [text |-> "akai", details |-> <<"keiyoshi">>],
      [text |-> ".", details |-> <<>>],
      [text |-> ",", details |-> <<"joshi">>] }

TokenSeqs == UNION {[1..n -> Alphabet] : n \in 0..MaxLen}

\* A text on which tokenizer.tokenize returns Err.
Malformed == [ok |-> FALSE, tokens |-> <<>>]

Texts == {[ok |-> TRUE, tokens |-> s] : s \in TokenSeqs} \cup {Malformed}

\* ------------------------------------------------------------- extract_features
is_punctuation(word) == word \in AsciiPunctuation

\* text.split(['.','!','?']).filter(|s| !s.trim().is_empty()).count(): the
\* number of maximal runs of tokens between sentence ends.
sentence_count(tokens) ==
    Cardinality({i \in 1..Len(tokens) :
        /\ tokens[i].text \notin SentenceEnd
        /\ (i = 1 \/ tokens[i - 1].text \in SentenceEnd)})

\* token.get_details().get(0), or "".
pos_of(token) == IF Len(token.details) > 0 THEN token.details[1] ELSE ""

TrackedPos == {"joshi", "doshi", "keiyoshi"}

\* The word counters after the loop: one entry per non-punctuation surface.
word_counts(tokens) ==
    [w \in {tokens[i].text : i \in {j \in 1..Len(tokens) : ~is_punctuation(tokens[j].text)}} |->
        Cardinality({i \in 1..Len(tokens) : tokens[i].text = w})]

\* pos_frequencies.get(p).unwrap_or(&0.0): every token is counted, punctuation too.
pos_count(tokens, p) ==
    IF p \in TrackedPos
    THEN Cardinality({i \in 1..Len(tokens) : pos_of(tokens[i]) = p})
    ELSE 0

punctuation_count(tokens) ==
    Cardinality({i \in 1..Len(tokens) : is_punctuation(tokens[i].text)})

min_ratio == Rat(1, 10)

extract_features(tokens) ==
    LET total_tokens == F(Len(tokens))
        sc == F(sentence_count(tokens))
        counts == word_counts(tokens)
        content_tokens == FSub(total_tokens, F(punctuation_count(tokens)))
    IN  IF FLt(total_tokens, F(2))
        THEN [word_frequencies |-> << >>,
              particle_ratio |-> F(0),
              verb_ratio |-> F(0),
              adjective_ratio |-> F(0),
              unique_words_ratio |-> F(0),
              avg_sentence_length |-> total_tokens,
              punctuation_ratio |-> F(0)]
        ELSE [word_frequencies |-> [w \in DOMAIN counts |-> FDiv(F(counts[w]), content_tokens)],
              particle_ratio |-> FMax(FDiv(F(pos_count(tokens, "joshi")), content_tokens), min_ratio),
              verb_ratio |-> FMax(FDiv(F(pos_count(tokens, "doshi")), content_tokens), min_ratio),
              adjective_ratio |-> FMax(FDiv(F(pos_count(tokens, "keiyoshi")), content_tokens), min_ratio),
              unique_words_ratio |->
                  IF FGt(content_tokens, F(0))
                  THEN FDiv(F(Cardinality(DOMAIN counts)), content_tokens)
                  ELSE F(0),
              avg_sentence_length |->
                  IF FGt(sc, F(0)) THEN FDiv(content_tokens, sc) ELSE content_tokens,
              punctuation_ratio |->
                  IF FGt(total_tokens, F(0))
                  THEN FDiv(F(punctuation_count(tokens)), total_tokens)
                  ELSE F(0)]

\* ------------------------------------------------------------- calculate_frequency_similarity
\* HashMap::get(word).unwrap_or(&0.0)
get_or_zero(freq, word) == IF word \in DOMAIN freq THEN freq[word] ELSE F(0)

\* all_words after extend, sort_unstable and dedup: the sorted union of the keys.
all_words(freq1, freq2) ==
    SelectSeq(Vocabulary, LAMBDA w : w \in (DOMAIN freq1) \cup (DOMAIN freq2))

to_vec(words, freq) == [i \in 1..Len(words) |-> get_or_zero(freq, words[i])]

\* DVector::dot
dot(v1, v2) == FSum([i \in 1..Len(v1) |-> FMul(v1[i], v2[i])])

\* DVector::norm: the square root of the sum of squares.
norm(v) == FSqrt(FSum([i \in 1..Len(v) |-> FMul(v[i], v[i])]))

calculate_frequency_similarity(freq1, freq2) ==
    LET words == all_words(freq1, freq2)
        v1 == to_vec(words, freq1)
        v2 == to_vec(words, freq2)
    IN  FDiv(dot(v1, v2), FMul(norm(v1), norm(v2)))

\* ------------------------------------------------------------- compare_features
DetailedResult(aspect, difference, explanation) ==
    [aspect |-> aspect, difference |-> difference, explanation |-> explanation]

\* Mutant of cap: the .min(0.5) is left out.
cap_missing(x) == x

\* The cap of every aspect but Word Usage: x.min(0.5).
cap(x) == FMin(x, Rat(1, 2))

length_ratio(features1, features2) ==
    IF FGt(features1.avg_sentence_length, features2.avg_sentence_length)
    THEN FDiv(features2.avg_sentence_length, features1.avg_sentence_length)
    ELSE FDiv(features1.avg_sentence_length, features2.avg_sentence_length)

\* One entry of the style_markers loop.
style_marker(name, lower, ratio1, ratio2) ==
    DetailedResult(name, cap(FAbs(FSub(ratio1, ratio2))), lower)

compare_features(features1, features2) ==
    << DetailedResult("Word Usage",
           FSub(F(1), calculate_frequency_similarity(features1.word_frequencies,
                                                     features2.word_frequencies)),
           "Similarity in word choice and frequency"),
       DetailedResult("Sentence Length",
           cap(FSub(F(1), length_ratio(features1, features2))),
           "Difference in average sentence length"),
       style_marker("Particle Usage", "Difference in particle usage",
           features1.particle_ratio, features2.particle_ratio),
       style_marker("Verb Usage", "Difference in verb usage",
           features1.verb_ratio, features2.verb_ratio),
       style_marker("Adjective Usage", "Difference in adjective usage",
           features1.adjective_ratio, features2.adjective_ratio),
       style_marker("Punctuation", "Difference in punctuation",
           features1.punctuation_ratio, features2.punctuation_ratio),
       DetailedResult("Vocabulary Richness",
           cap(FAbs(FSub(features1.unique_words_ratio, features2.unique_words_ratio))),
           "Difference in vocabulary diversity") >>

\* ------------------------------------------------------------- calculate_confidence
\* Mutant of weight: Word Usage keeps the weight 2.0 it had before it was raised.
weight_unraised(aspect) ==
    CASE aspect = "Word Usage" -> F(2)
      [] aspect = "Sentence Length" -> Rat(3, 2)
      [] aspect = "Particle Usage" -> Rat(3, 2)
      [] aspect = "Verb Usage" -> Rat(6, 5)
      [] aspect = "Adjective Usage" -> Rat(6, 5)
      [] aspect = "Vocabulary Richness" -> Rat(3, 2)
      [] OTHER -> F(1)

weight(aspect) ==
    CASE aspect = "Word Usage" -> F(3)
      [] aspect = "Sentence Length" -> Rat(3, 2)
      [] aspect = "Particle Usage" -> Rat(3, 2)
      [] aspect = "Verb Usage" -> Rat(6, 5)
      [] aspect = "Adjective Usage" -> Rat(6, 5)
      [] aspect = "Vocabulary Richness" -> Rat(3, 2)
      [] OTHER -> F(1)

\* Mutant of clamp: written with comparisons, which a NaN passes through.
clamp_by_comparison(value, min, max) ==
    IF FLt(value, min) THEN min ELSE IF FGt(value, max) THEN max ELSE value

clamp(value, min, max) == FMax(FMin(value, max), min)

calculate_confidence(details) ==
    LET total_weight == F(Len(details))
        weighted_sum ==
            FSum([i \in 1..Len(details) |->
                FMul(FSub(F(1), details[i].difference), weight(details[i].aspect))])
        confidence == FDiv(weighted_sum, FMul(total_weight, F(2)))
    IN  clamp(confidence, F(0), F(1))

\* The decision of compare_texts: confidence > 0.6.
threshold == Rat(3, 5)
\* Mutant of is_same_author: a stricter threshold of 0.8.
is_same_author_strict(confidence) == FGt(confidence, Rat(4, 5))

is_same_author(confidence) == FGt(confidence, threshold)

\* ------------------------------------------------------------- compare_texts
\* The actix workers that run the handler.
VARIABLE workers
\* Per worker: where its handler is, the request body, and the handler's locals
\* (None until their `let` has run), and the response it returns.
VARIABLES pc, body, features1, features2, detailed_analysis, confidence, same_author,
          response

vars == <<workers, pc, body, features1, features2, detailed_analysis, confidence,
          same_author, response>>

None == << >>
Some(x) == <<x>>
Get(o) == o[1]

AllWorkers == {1, 2}

\* No request at hand.
NoBody == [text1 |-> Malformed, text2 |-> Malformed]

\* Texts of the concurrent runs: an empty text, two ordinary ones, one malformed.
ConcTexts ==
    { [ok |-> TRUE, tokens |-> << >>],
      [ok |-> TRUE, tokens |-> <<[text |-> "neko", details |-> <<"meishi", "ippan">>],
                                 [text |-> "wa", details |-> <<"joshi">>]>>],
      [ok |-> TRUE, tokens |-> <<[text |-> "neko", details |-> <<"meishi", "ippan">>],
                                 [text |-> "neko", details |-> <<"meishi", "ippan">>]>>],
      Malformed }

Fresh(ws) ==
    /\ workers = ws
    /\ pc = [r \in AllWorkers |-> "idle"]
    /\ body = [r \in AllWorkers |-> NoBody]
    /\ features1 = [r \in AllWorkers |-> None]
    /\ features2 = [r \in AllWorkers |-> None]
    /\ detailed_analysis = [r \in AllWorkers |-> None]
    /\ confidence = [r \in AllWorkers |-> None]
    /\ same_author = [r \in AllWorkers |-> None]
    /\ response = [r \in AllWorkers |-> None]

\* One worker.
Init == Fresh({1})

\* Two workers.
ConcInit == Fresh(AllWorkers)

\* A POST /compare arrives at an idle worker, its two texts among `texts`:
\* body: web::Json<ComparisonQuery>.
ReceiveFrom(r, texts) ==
    /\ pc[r] = "idle"
    /\ \E t1 \in texts, t2 \in texts :
          body' = [body EXCEPT ![r] = [text1 |-> t1, text2 |-> t2]]
    /\ pc' = [pc EXCEPT ![r] = "from_config"]
    /\ UNCHANGED <<workers, features1, features2, detailed_analysis, confidence,
                   same_author, response>>

\* A request with any two texts of the bound.
Receive(r) == ReceiveFrom(r, Texts)

\* A request with two of the texts of the concurrent runs.
ConcReceive(r) == ReceiveFrom(r, ConcTexts)

\* Tokenizer::from_config(config).unwrap(): the tokenizer is built, or the
\* dictionary cannot be loaded and unwrap panics.
FromConfig(r) ==
    /\ pc[r] = "from_config"
    /\ \E built \in BOOLEAN :
          pc' = [pc EXCEPT ![r] = IF built THEN "features1" ELSE "panicked"]
    /\ UNCHANGED <<workers, body, features1, features2, detailed_analysis,
                   confidence, same_author, response>>

\* Mutant of ExtractFeatures1: the features are kept in one place shared by all
\* workers instead of in a local of the handler.
ExtractFeatures1_shared(r) ==
    /\ pc[r] = "features1"
    /\ IF body[r].text1.ok
       THEN /\ features1' = [w \in AllWorkers |->
                   IF w = r \/ features1[w] # None
                   THEN Some(extract_features(body[r].text1.tokens))
                   ELSE None]
            /\ pc' = [pc EXCEPT ![r] = "features2"]
       ELSE /\ pc' = [pc EXCEPT ![r] = "panicked"]
            /\ UNCHANGED features1
    /\ UNCHANGED <<workers, body, features2, detailed_analysis, confidence,
                   same_author, response>>

\* let features1 = extract_features(&body.text1, &tokenizer), whose first line is
\* tokenizer.tokenize(text).unwrap().
ExtractFeatures1(r) ==
    /\ pc[r] = "features1"
    /\ IF body[r].text1.ok
       THEN /\ features1' = [features1 EXCEPT ![r] = Some(extract_features(body[r].text1.tokens))]
            /\ pc' = [pc EXCEPT ![r] = "features2"]
       ELSE /\ pc' = [pc EXCEPT ![r] = "panicked"]
            /\ UNCHANGED features1
    /\ UNCHANGED <<workers, body, features2, detailed_analysis, confidence,
                   same_author, response>>

\* let features2 = extract_features(&body.text2, &tokenizer)
ExtractFeatures2(r) ==
    /\ pc[r] = "features2"
    /\ IF body[r].text2.ok
       THEN /\ features2' = [features2 EXCEPT ![r] = Some(extract_features(body[r].text2.tokens))]
            /\ pc' = [pc EXCEPT ![r] = "compare"]
       ELSE /\ pc' = [pc EXCEPT ![r] = "panicked"]
            /\ UNCHANGED features2
    /\ UNCHANGED <<workers, body, features1, detailed_analysis, confidence,
                   same_author, response>>

\* let detailed_analysis = compare_features(&features1, &features2)
CompareFeatures(r) ==
    /\ pc[r] = "compare"
    /\ detailed_analysis' = [detailed_analysis EXCEPT ![r] =
           Some(compare_features(Get(features1[r]), Get(features2[r])))]
    /\ pc' = [pc EXCEPT ![r] = "confidence"]
    /\ UNCHANGED <<workers, body, features1, features2, confidence, same_author,
                   response>>

\* let confidence = calculate_confidence(&detailed_analysis);
\* let same_author = confidence > 0.6
CalculateConfidence(r) ==
    /\ pc[r] = "confidence"
    /\ LET c == calculate_confidence(Get(detailed_analysis[r]))
       IN  /\ confidence' = [confidence EXCEPT ![r] = Some(c)]
           /\ same_author' = [same_author EXCEPT ![r] = Some(is_same_author(c))]
    /\ pc' = [pc EXCEPT ![r] = "respond"]
    /\ UNCHANGED <<workers, body, features1, features2, detailed_analysis,
                   response>>

Analysis(sa, c, da) == [same_author |-> sa, confidence |-> c, detailed_analysis |-> da]

\* Ok(web::Json(Analysis { same_author, confidence, detailed_analysis })): the
\* handler returns its result.
Respond(r) ==
    /\ pc[r] = "respond"
    /\ response' = [response EXCEPT ![r] =
           Some(Analysis(Get(same_author[r]), Get(confidence[r]), Get(detailed_analysis[r])))]
    /\ pc' = [pc EXCEPT ![r] = "responded"]
    /\ UNCHANGED <<workers, body, features1, features2, detailed_analysis,
                   confidence, same_author>>

\* The response has been written; the request, the handler's locals and the
\* Analysis are dropped, and the worker waits for the next request.
Finish(r) ==
    /\ pc[r] = "responded"
    /\ pc' = [pc EXCEPT ![r] = "idle"]
    /\ body' = [body EXCEPT ![r] = NoBody]
    /\ features1' = [features1 EXCEPT ![r] = None]
    /\ features2' = [features2 EXCEPT ![r] = None]
    /\ detailed_analysis' = [detailed_analysis EXCEPT ![r] = None]
    /\ confidence' = [confidence EXCEPT ![r] = None]
    /\ same_author' = [same_author EXCEPT ![r] = None]
    /\ response' = [response EXCEPT ![r] = None]
    /\ UNCHANGED workers

Next ==
    \/ \E r \in workers : Receive(r)
    \/ \E r \in workers : FromConfig(r)
    \/ \E r \in workers : ExtractFeatures1(r)
    \/ \E r \in workers : ExtractFeatures2(r)
    \/ \E r \in workers : CompareFeatures(r)
    \/ \E r \in workers : CalculateConfidence(r)
    \/ \E r \in workers : Respond(r)
    \/ \E r \in workers : Finish(r)

ConcNext ==
    \/ \E r \in workers : ConcReceive(r)
    \/ \E r \in workers : FromConfig(r)
    \/ \E r \in workers : ExtractFeatures1(r)
    \/ \E r \in workers : ExtractFeatures2(r)
    \/ \E r \in workers : CompareFeatures(r)
    \/ \E r \in workers : CalculateConfidence(r)
    \/ \E r \in workers : Respond(r)
    \/ \E r \in workers : Finish(r)

Spec == Init /\ [][Next]_vars

ConcSpec == ConcInit /\ [][ConcNext]_vars

\* ------------------------------------------------------------- calculate_confidence alone
\* Longest list of aspect results handed to calculate_confidence directly.
MaxDetails == 2

Aspects == {"Word Usage", "Sentence Length", "Particle Usage", "Verb Usage",
            "Adjective Usage", "Punctuation", "Vocabulary Richness"}

Differences == {NaN, F(-2), F(0), Rat(1, 2), F(1), F(3)}

DetailLists ==
    UNION {[1..n -> {DetailedResult(a, d, "") : a \in Aspects, d \in Differences}] :
           n \in 0..MaxDetails}

\* calculate_confidence and the decision on any list of aspect results: the
\* handler stands at lines 232-233 with that list as detailed_analysis.
ConfInit ==
    /\ workers = {1}
    /\ pc = [r \in AllWorkers |-> IF r = 1 THEN "confidence" ELSE "idle"]
    /\ body = [r \in AllWorkers |-> NoBody]
    /\ features1 = [r \in AllWorkers |-> None]
    /\ features2 = [r \in AllWorkers |-> None]
    /\ \E l \in DetailLists :
          detailed_analysis = [r \in AllWorkers |-> IF r = 1 THEN Some(l) ELSE None]
    /\ confidence = [r \in AllWorkers |-> None]
    /\ same_author = [r \in AllWorkers |-> None]
    /\ response = [r \in AllWorkers |-> None]

ConfNext == \E r \in workers : CalculateConfidence(r)

ConfSpec == ConfInit /\ [][ConfNext]_vars

\* ------------------------------------------------------------- properties
InUnit(x) == FLe(F(0), x) /\ FLe(x, F(1))

WordUsage(da) == da[1].difference

HasContent(text) ==
    /\ Len(text.tokens) >= 2
    /\ \E i \in 1..Len(text.tokens) : ~is_punctuation(text.tokens[i].text)

Degenerate(text) == Len(text.tokens) < 2

\* C1: whatever the two texts, the confidence calculate_confidence returns over
\* the result of compare_features lies in [0,1].
C1_ConfidenceInUnit ==
    \A r \in workers : confidence[r] # None => InUnit(Get(confidence[r]))

\* C1's hard case: a comparison whose Word Usage difference is NaN has got its
\* confidence.
C1_Witness ==
    \E r \in workers :
        /\ confidence[r] # None
        /\ IsNaN(WordUsage(Get(detailed_analysis[r])))

\* C2 as stated: comparing a text with itself yields same_author = true and a
\* confidence at or near 1.0 (here: at least 0.9).
C2_SelfComparisonNearOne ==
    \A r \in workers :
        (response[r] # None /\ body[r].text1 = body[r].text2) =>
            /\ Get(response[r]).same_author = TRUE
            /\ FLe(Rat(9, 10), Get(response[r]).confidence)

\* C2 amended: comparing a text with itself yields same_author = true; the
\* confidence is 10.9/14 (about 0.78, within the rounding of the norms: all seven
\* differences are 0) when the text has a content word among at least 2 tokens,
\* and exactly 1.0 otherwise (the Word Usage difference is NaN).
C2_SelfComparison ==
    \A r \in workers :
        (response[r] # None /\ body[r].text1 = body[r].text2) =>
            /\ Get(response[r]).same_author = TRUE
            /\ IF HasContent(body[r].text1)
               THEN FLe(FAbs(FSub(Get(response[r]).confidence, Rat(109, 140))), Rat(1, 50))
               ELSE Get(response[r]).confidence = F(1)

\* A text of two content words has been compared with itself and answered.
C2_Witness ==
    \E r \in workers :
        /\ response[r] # None
        /\ body[r].text1 = body[r].text2
        /\ HasContent(body[r].text1)
        /\ Cardinality(DOMAIN Get(features1[r]).word_frequencies) = 2

FeaturesInRange(f) ==
    /\ InUnit(f.particle_ratio)
    /\ InUnit(f.verb_ratio)
    /\ InUnit(f.adjective_ratio)
    /\ InUnit(f.unique_words_ratio)
    /\ InUnit(f.punctuation_ratio)
    /\ \A w \in DOMAIN f.word_frequencies : InUnit(f.word_frequencies[w])
    /\ IsFinite(f.avg_sentence_length)
    /\ FLe(F(0), f.avg_sentence_length)

\* C3: for every token sequence, whatever the tags, every ratio and word
\* frequency of the extracted features is in [0,1], avg_sentence_length >= 0,
\* and no field is NaN or infinite.
C3_FeaturesInRange ==
    \A r \in workers :
        /\ features1[r] # None => FeaturesInRange(Get(features1[r]))
        /\ features2[r] # None => FeaturesInRange(Get(features2[r]))

ZeroNorm(freq) == \A w \in DOMAIN freq : freq[w] = F(0)

\* C4: when either frequency vector has zero norm the similarity is 0.0 (a Word
\* Usage difference of 1.0), and no NaN or infinite difference reaches
\* calculate_confidence.
C4_ZeroNormSimilarityIsZero ==
    \A r \in workers :
        detailed_analysis[r] # None /\ features1[r] # None /\ features2[r] # None =>
            /\ (ZeroNorm(Get(features1[r]).word_frequencies)
                    \/ ZeroNorm(Get(features2[r]).word_frequencies)) =>
                  /\ calculate_frequency_similarity(Get(features1[r]).word_frequencies,
                                                    Get(features2[r]).word_frequencies) = F(0)
                  /\ WordUsage(Get(detailed_analysis[r])) = F(1)
            /\ \A i \in 1..Len(Get(detailed_analysis[r])) :
                  IsFinite(Get(detailed_analysis[r])[i].difference)

\* C5: a failure of the token source (on either text, or when it is built) never
\* panics the handler.
C5_NeverPanics == \A r \in workers : pc[r] # "panicked"

\* C6: a comparison in which a text has fewer than 2 tokens is answered with a
\* confidence not above 0.6 and same_author = false.
C6_DegenerateIsLowConfidence ==
    \A r \in workers :
        (response[r] # None /\ (Degenerate(body[r].text1) \/ Degenerate(body[r].text2))) =>
            /\ ~FGt(Get(response[r]).confidence, Rat(3, 5))
            /\ Get(response[r]).same_author = FALSE

\* The whole pipeline on two texts, run alone.
CompareAlone(text1, text2) ==
    LET da == compare_features(extract_features(text1.tokens), extract_features(text2.tokens))
        c == calculate_confidence(da)
    IN  Analysis(is_same_author(c), c, da)

\* C7: under every interleaving of concurrent requests, the Analysis a request
\* gets is the one its two texts give when run alone, and two requests with the
\* same texts get the same Analysis.
C7_OutputDependsOnlyOnInputs ==
    /\ \A r \in workers :
          response[r] # None => Get(response[r]) = CompareAlone(body[r].text1, body[r].text2)
    /\ \A r1, r2 \in workers :
          (response[r1] # None /\ response[r2] # None /\ body[r1] = body[r2]) =>
              response[r1] = response[r2]

\* Two workers have answered different requests that were in flight together.
C7_Witness ==
    \E r1, r2 \in workers :
        /\ r1 # r2
        /\ response[r1] # None
        /\ response[r2] # None
        /\ body[r1] # body[r2]
        /\ Get(response[r1]) # Get(response[r2])

\* C8: calculate_frequency_similarity(a,b) == calculate_frequency_similarity(b,a)
\* and every difference of compare_features(a,b) == that of compare_features(b,a),
\* with == the equality of f64.
C8_Symmetric ==
    \A r \in workers :
        (features1[r] # None /\ features2[r] # None) =>
            LET a == Get(features1[r])
                b == Get(features2[r])
            IN  /\ FEq(calculate_frequency_similarity(a.word_frequencies, b.word_frequencies),
                       calculate_frequency_similarity(b.word_frequencies, a.word_frequencies))
                /\ \A i \in 1..7 :
                      FEq(compare_features(a, b)[i].difference,
                          compare_features(b, a)[i].difference)

InCap(x) == FLe(F(0), x) /\ FLe(x, Rat(1, 2))

\* C9 as stated: every DetailedResult of compare_features has a difference in
\* [0, 0.5].  Only a difference below 0 or above 0.5 counts against it here: a
\* NaN difference is C4's matter.
C9_AllDifferencesCapped ==
    \A r \in workers :
        detailed_analysis[r] # None =>
            \A i \in 1..Len(Get(detailed_analysis[r])) :
                /\ ~FLt(Get(detailed_analysis[r])[i].difference, F(0))
                /\ ~FGt(Get(detailed_analysis[r])[i].difference, Rat(1, 2))

\* C9 amended: every DetailedResult of compare_features other than Word Usage
\* (the first, and the only one of that name) has a difference in [0, 0.5].
C9_CappedExceptWordUsage ==
    \A r \in workers :
        detailed_analysis[r] # None =>
            LET da == Get(detailed_analysis[r])
            IN  /\ Len(da) = 7
                /\ \A i \in 1..7 : (da[i].aspect = "Word Usage") <=> (i = 1)
                /\ \A i \in 2..7 : InCap(da[i].difference)

\* Two texts without a common word: Word Usage is 1.0, above the cap, and the
\* cap has cut another aspect to 0.5.
C9_Witness ==
    \E r \in workers :
        /\ detailed_analysis[r] # None
        /\ WordUsage(Get(detailed_analysis[r])) = F(1)
        /\ \E i \in 2..7 : Get(detailed_analysis[r])[i].difference = Rat(1, 2)

\* The weights as the specification lists them.
ListedWeight(aspect) ==
    IF aspect = "Word Usage" THEN Rat(30, 10)
    ELSE IF aspect \in {"Sentence Length", "Particle Usage", "Vocabulary Richness"} THEN Rat(15, 10)
    ELSE IF aspect \in {"Verb Usage", "Adjective Usage"} THEN Rat(12, 10)
    ELSE Rat(10, 10)

RECURSIVE ListedSum(_)
ListedSum(da) ==
    IF da = << >> THEN F(0)
    ELSE FAdd(ListedSum(Tail(da)),
              FMul(FSub(F(1), Head(da).difference), ListedWeight(Head(da).aspect)))

\* C10: on a list of aspect results with finite differences calculate_confidence
\* returns clamp(sum((1 - difference) * weight) / (count * 2.0), 0, 1) with the
\* listed weights, and same_author is true exactly when that is > 0.6.
C10_ConfidenceFormula ==
    \A r \in workers :
        (confidence[r] # None
            /\ \A i \in 1..Len(Get(detailed_analysis[r])) :
                  IsFinite(Get(detailed_analysis[r])[i].difference)) =>
            LET da == Get(detailed_analysis[r])
                expected == clamp(FDiv(ListedSum(da), F(Len(da) * 2)), F(0), F(1))
            IN  /\ Get(confidence[r]) = expected
                /\ Get(same_author[r]) = FGt(expected, Rat(6, 10))

\* A list with a Word Usage and an aspect of default weight, all differences
\* finite, whose confidence falls strictly between 0 and 1 and above 0.6.
C10_Witness ==
    \E r \in workers :
        /\ confidence[r] # None
        /\ Len(Get(detailed_analysis[r])) = 2
        /\ \A i \in 1..2 : IsFinite(Get(detailed_analysis[r])[i].difference)
        /\ \E i, j \in 1..2 :
              /\ Get(detailed_analysis[r])[i].aspect = "Word Usage"
              /\ Get(detailed_analysis[r])[j].aspect = "Punctuation"
        /\ FLt(Get(confidence[r]), F(1))
        /\ Get(same_author[r]) = TRUE

====
